---------------------------- MODULE Spec2Model ----------------------------
(***************************************************************************)
(* Render-graph configuration scripts of the Falcor fork:                  *)
(*   Source/Mogwai/Data/charvl.BSDFViewer.py                               *)
(*   Source/Mogwai/Data/charvl.wireless.py                                 *)
(*   Tests/image_tests/renderpasses/graphs/VBufferRT.py                    *)
(* Each script is a straight-line program of calls into the render-graph   *)
(* API followed by a guarded registration with the ambient session m.      *)
(* A script is modelled as its list of statements; one evaluation walks    *)
(* the list with a program counter.  Every call into the engine either     *)
(* returns or raises: which of the two is the engine's choice, so it is    *)
(* nondeterministic here.                                                  *)
(***************************************************************************)
EXTENDS Naturals, Sequences, FiniteSets

\* Number of script evaluations in one host process that the model follows.
MaxRuns == 2

Scripts == {"BSDFViewer", "wireless", "VBufferRT"}

\* A port reference "<pass>.<port>" as the string's three parts.
Port(pass, port) == <<pass, ".", port>>

PassOf(p) == p[1]

PortOf(p) == p[3]

WellFormedPort(p) == Len(p) = 3 /\ p[2] = "."

(***************************************************************************)
(* The scripts, statement by statement.                                    *)
(***************************************************************************)
\* Faulty variants of the BSDF-viewer script: another option value, an edge from a pass
\* to itself, a markOutput left until after the registration.
BSDFViewerScript_OtherMaterial ==
  << [op |-> "import", module |-> "falcor"],
     [op |-> "RenderGraph", name |-> "DefaultRenderGraph"],
     [op |-> "createPass", var |-> "BSDFViewer", type |-> "BSDFViewer",
      options |-> << <<"materialID", 1>> >>],
     [op |-> "addPass", var |-> "BSDFViewer", name |-> "BSDFViewer"],
     [op |-> "createPass", var |-> "AccumulatePass", type |-> "AccumulatePass",
      options |-> << <<"enabled", TRUE>>, <<"precisionMode", "Double">> >>],
     [op |-> "addPass", var |-> "AccumulatePass", name |-> "AccumulatePass"],
     [op |-> "addEdge", src |-> Port("BSDFViewer", "output"),
      dst |-> Port("AccumulatePass", "input")],
     [op |-> "markOutput", port |-> Port("AccumulatePass", "output")],
     [op |-> "return", var |-> "DefaultRenderGraph"],
     [op |-> "addGraph", var |-> "DefaultRenderGraph"] >>

BSDFViewerScript_SelfEdge ==
  << [op |-> "import", module |-> "falcor"],
     [op |-> "RenderGraph", name |-> "DefaultRenderGraph"],
     [op |-> "createPass", var |-> "BSDFViewer", type |-> "BSDFViewer",
      options |-> << <<"materialID", 0>> >>],
     [op |-> "addPass", var |-> "BSDFViewer", name |-> "BSDFViewer"],
     [op |-> "createPass", var |-> "AccumulatePass", type |-> "AccumulatePass",
      options |-> << <<"enabled", TRUE>>, <<"precisionMode", "Double">> >>],
     [op |-> "addPass", var |-> "AccumulatePass", name |-> "AccumulatePass"],
     [op |-> "addEdge", src |-> Port("AccumulatePass", "output"),
      dst |-> Port("AccumulatePass", "input")],
     [op |-> "markOutput", port |-> Port("AccumulatePass", "output")],
     [op |-> "return", var |-> "DefaultRenderGraph"],
     [op |-> "addGraph", var |-> "DefaultRenderGraph"] >>

BSDFViewerScript_MarkAfterRegister ==
  << [op |-> "import", module |-> "falcor"],
     [op |-> "RenderGraph", name |-> "DefaultRenderGraph"],
     [op |-> "createPass", var |-> "BSDFViewer", type |-> "BSDFViewer",
      options |-> << <<"materialID", 0>> >>],
     [op |-> "addPass", var |-> "BSDFViewer", name |-> "BSDFViewer"],
     [op |-> "createPass", var |-> "AccumulatePass", type |-> "AccumulatePass",
      options |-> << <<"enabled", TRUE>>, <<"precisionMode", "Double">> >>],
     [op |-> "addPass", var |-> "AccumulatePass", name |-> "AccumulatePass"],
     [op |-> "addEdge", src |-> Port("BSDFViewer", "output"),
      dst |-> Port("AccumulatePass", "input")],
     [op |-> "return", var |-> "DefaultRenderGraph"],
     [op |-> "addGraph", var |-> "DefaultRenderGraph"],
     [op |-> "markOutput", port |-> Port("AccumulatePass", "output")] >>

BSDFViewerScript ==
  << [op |-> "import", module |-> "falcor"],
     [op |-> "RenderGraph", name |-> "DefaultRenderGraph"],
     [op |-> "createPass", var |-> "BSDFViewer", type |-> "BSDFViewer",
      options |-> << <<"materialID", 0>> >>],
     [op |-> "addPass", var |-> "BSDFViewer", name |-> "BSDFViewer"],
     [op |-> "createPass", var |-> "AccumulatePass", type |-> "AccumulatePass",
      options |-> << <<"enabled", TRUE>>, <<"precisionMode", "Double">> >>],
     [op |-> "addPass", var |-> "AccumulatePass", name |-> "AccumulatePass"],
     [op |-> "addEdge", src |-> Port("BSDFViewer", "output"),
      dst |-> Port("AccumulatePass", "input")],
     [op |-> "markOutput", port |-> Port("AccumulatePass", "output")],
     [op |-> "return", var |-> "DefaultRenderGraph"],
     [op |-> "addGraph", var |-> "DefaultRenderGraph"] >>

\* Faulty variants of the wireframe script: another port marked, the output marked
\* before its pass is added.
wirelessScript_OtherOutput ==
  << [op |-> "import", module |-> "falcor"],
     [op |-> "RenderGraph", name |-> "DefaultRenderGraph"],
     [op |-> "createPass", var |-> "wireframe", type |-> "wireframe",
      options |-> << >>],
     [op |-> "addPass", var |-> "wireframe", name |-> "wireframe"],
     [op |-> "markOutput", port |-> Port("wireframe", "input")],
     [op |-> "return", var |-> "DefaultRenderGraph"],
     [op |-> "addGraph", var |-> "DefaultRenderGraph"] >>

wirelessScript_MarkBeforeAdd ==
  << [op |-> "import", module |-> "falcor"],
     [op |-> "RenderGraph", name |-> "DefaultRenderGraph"],
     [op |-> "createPass", var |-> "wireframe", type |-> "wireframe",
      options |-> << >>],
     [op |-> "markOutput", port |-> Port("wireframe", "output")],
     [op |-> "addPass", var |-> "wireframe", name |-> "wireframe"],
     [op |-> "return", var |-> "DefaultRenderGraph"],
     [op |-> "addGraph", var |-> "DefaultRenderGraph"] >>

wirelessScript ==
  << [op |-> "import", module |-> "falcor"],
     [op |-> "RenderGraph", name |-> "DefaultRenderGraph"],
     [op |-> "createPass", var |-> "wireframe", type |-> "wireframe",
      options |-> << >>],
     [op |-> "addPass", var |-> "wireframe", name |-> "wireframe"],
     [op |-> "markOutput", port |-> Port("wireframe", "output")],
     [op |-> "return", var |-> "DefaultRenderGraph"],
     [op |-> "addGraph", var |-> "DefaultRenderGraph"] >>

\* Faulty variant of the VBufferRT script: the library loaded after the pass is created.
VBufferRTScript_LateLoad ==
  << [op |-> "import", module |-> "falcor"],
     [op |-> "RenderGraph", name |-> "VBufferRT"],
     [op |-> "createPass", var |-> "(argument)", type |-> "VBufferRT",
      options |-> << >>],
     [op |-> "loadRenderPassLibrary", file |-> "GBuffer.dll"],
     [op |-> "addPass", var |-> "(argument)", name |-> "VBufferRT"],
     [op |-> "markOutput", port |-> Port("VBufferRT", "vbuffer")],
     [op |-> "markOutput", port |-> Port("VBufferRT", "depth")],
     [op |-> "markOutput", port |-> Port("VBufferRT", "mvec")],
     [op |-> "markOutput", port |-> Port("VBufferRT", "viewW")],
     [op |-> "return", var |-> "VBufferRT"],
     [op |-> "addGraph", var |-> "VBufferRT"] >>

VBufferRTScript ==
  << [op |-> "import", module |-> "falcor"],
     [op |-> "loadRenderPassLibrary", file |-> "GBuffer.dll"],
     [op |-> "RenderGraph", name |-> "VBufferRT"],
     [op |-> "createPass", var |-> "(argument)", type |-> "VBufferRT",
      options |-> << >>],
     [op |-> "addPass", var |-> "(argument)", name |-> "VBufferRT"],
     [op |-> "markOutput", port |-> Port("VBufferRT", "vbuffer")],
     [op |-> "markOutput", port |-> Port("VBufferRT", "depth")],
     [op |-> "markOutput", port |-> Port("VBufferRT", "mvec")],
     [op |-> "markOutput", port |-> Port("VBufferRT", "viewW")],
     [op |-> "return", var |-> "VBufferRT"],
     [op |-> "addGraph", var |-> "VBufferRT"] >>

Prog(s) ==
  CASE s = "BSDFViewer" -> BSDFViewerScript
    [] s = "wireless"   -> wirelessScript
    [] s = "VBufferRT"  -> VBufferRTScript

LocalVars == {"BSDFViewer", "AccumulatePass", "wireframe", "(argument)"}

GlobalVars == {"DefaultRenderGraph", "VBufferRT"}

\* Statements that reach into the engine, each of which may raise.
EngineOps == {"import", "loadRenderPassLibrary", "RenderGraph", "createPass",
              "addPass", "addEdge", "markOutput", "addGraph"}

\* Statements that run before the try statement.
BuildOps == EngineOps \ {"addGraph"}

(***************************************************************************)
(* Exceptions.  RuntimeError stands for every kind that is not NameError   *)
(* or a subclass of it; UnboundLocalError is NameError's subclass.         *)
(***************************************************************************)
ErrorKinds == {"NameError", "UnboundLocalError", "RuntimeError"}

\* Faulty variant: the clause written for another kind.
ExceptKeyError(k) == k = "KeyError"

\* The kinds an  except NameError  clause matches.
ExceptNameError(k) == k \in {"NameError", "UnboundLocalError"}

\* Faulty variant: the try block drawn around the whole script.
InTryWholeScript(ins) == TRUE

\* The statements inside the  try:  block.
InTry(ins) == ins.op = "addGraph"

(***************************************************************************)
(* The render-graph API the scripts consume (the engine's side).           *)
(***************************************************************************)
RenderGraph(name) ==
  [name |-> name, passes |-> << >>, edges |-> {}, outputs |-> {}]

createPass(type, options) == [type |-> type, options |-> options]

addPass(graph, pass, name) ==
  [graph EXCEPT !.passes =
     Append(@, [name |-> name, type |-> pass.type, options |-> pass.options])]

addEdge(graph, src, dst) == [graph EXCEPT !.edges = @ \cup {<<src, dst>>}]

markOutput(graph, port) == [graph EXCEPT !.outputs = @ \cup {port}]

loadRenderPassLibrary(loaded, file) == loaded \cup {file}

addGraph(sess, graph) == Append(sess, graph)

(***************************************************************************)
(* State.  A variable that may be unbound holds << >> or <<value>>.        *)
(***************************************************************************)
VARIABLES
  run,          \* ordinal of the current script evaluation
  script,       \* the script being evaluated
  mPresent,     \* whether the name m is defined in the evaluation's scope
  pc,           \* index of the next statement of Prog(script)
  status,       \* "running", "done" (evaluation completed), "raised"
  g,            \* the function's local g
  locals,       \* the function's other locals: created passes
  globals,      \* the module-level graph variables
  calls,        \* the engine calls of this evaluation, in order, with outcome
  err,          \* the error that left the script, or "none"
  caught,       \* the error the except clause absorbed, or "none"
  session,      \* graphs registered with the host session, oldest first
  sessionBase,  \* Len(session) when this evaluation started
  libs,         \* render-pass libraries loaded into the engine
  built,        \* per script: what its completed builds returned
  buildCount    \* per script: how many builds completed

vars == <<run, script, mPresent, pc, status, g, locals, globals, calls, err,
          caught, session, sessionBase, libs, built, buildCount>>

Ins == Prog(script)[pc]

Running == status = "running" /\ pc <= Len(Prog(script))

At(op) == Running /\ Ins.op = op

Logged(outcome) == Append(calls, [ins |-> Ins, outcome |-> outcome])

perRun == <<run, script, mPresent>>

host == <<session, sessionBase, libs, built, buildCount>>

Init ==
  /\ run = 1
  /\ script \in Scripts
  /\ mPresent \in BOOLEAN
  /\ pc = 1
  /\ status = "running"
  /\ g = << >>
  /\ locals = [v \in LocalVars |-> << >>]
  /\ globals = [v \in GlobalVars |-> << >>]
  /\ calls = << >>
  /\ err = "none"
  /\ caught = "none"
  /\ session = << >>
  /\ sessionBase = 0
  /\ libs = {}
  /\ built = [s \in Scripts |-> {}]
  /\ buildCount = [s \in Scripts |-> 0]

\* Control moves to the next statement; the evaluation is complete after the last.
Goto ==
  /\ pc' = pc + 1
  /\ status' = IF pc = Len(Prog(script)) THEN "done" ELSE "running"

Advance == Goto /\ UNCHANGED <<err, caught>>

\* from falcor import *
Import ==
  /\ At("import")
  /\ calls' = Logged("ok")
  /\ Advance
  /\ UNCHANGED <<perRun, g, locals, globals, host>>

\* loadRenderPassLibrary("GBuffer.dll")
LoadLibraryStep ==
  /\ At("loadRenderPassLibrary")
  /\ libs' = loadRenderPassLibrary(libs, Ins.file)
  /\ calls' = Logged("ok")
  /\ Advance
  /\ UNCHANGED <<perRun, g, locals, globals, session, sessionBase, built, buildCount>>

\* Faulty variant: the graph of that name the session already holds is taken up again
\* instead of a new one being constructed.
RenderGraphStep_Reuse ==
  /\ At("RenderGraph")
  /\ g' = IF session # << >> /\ session[Len(session)].name = Ins.name
          THEN << session[Len(session)] >>
          ELSE << RenderGraph(Ins.name) >>
  /\ calls' = Logged("ok")
  /\ Advance
  /\ UNCHANGED <<perRun, locals, globals, host>>

\* g = RenderGraph(<name>)
RenderGraphStep ==
  /\ At("RenderGraph")
  /\ g' = << RenderGraph(Ins.name) >>
  /\ calls' = Logged("ok")
  /\ Advance
  /\ UNCHANGED <<perRun, locals, globals, host>>

\* <var> = createPass(<type>, <options>)
CreatePassStep ==
  /\ At("createPass")
  /\ locals' = [locals EXCEPT ![Ins.var] = << createPass(Ins.type, Ins.options) >>]
  /\ calls' = Logged("ok")
  /\ Advance
  /\ UNCHANGED <<perRun, g, globals, host>>

\* g.addPass(<var>, <name>)
AddPassStep ==
  /\ At("addPass")
  /\ g' = << addPass(g[1], locals[Ins.var][1], Ins.name) >>
  /\ calls' = Logged("ok")
  /\ Advance
  /\ UNCHANGED <<perRun, locals, globals, host>>

\* g.addEdge(<src>, <dst>)
AddEdgeStep ==
  /\ At("addEdge")
  /\ g' = << addEdge(g[1], Ins.src, Ins.dst) >>
  /\ calls' = Logged("ok")
  /\ Advance
  /\ UNCHANGED <<perRun, locals, globals, host>>

\* g.markOutput(<port>)
MarkOutputStep ==
  /\ At("markOutput")
  /\ g' = << markOutput(g[1], Ins.port) >>
  /\ calls' = Logged("ok")
  /\ Advance
  /\ UNCHANGED <<perRun, locals, globals, host>>

\* return g, and the module-level assignment  <var> = render_graph_...()
ReturnStep ==
  /\ At("return")
  /\ globals' = [globals EXCEPT ![Ins.var] = g]
  /\ built' = [built EXCEPT ![script] = @ \cup {[graph |-> g[1], calls |-> calls]}]
  /\ buildCount' = [buildCount EXCEPT ![script] = @ + 1]
  /\ Advance
  /\ UNCHANGED <<perRun, g, locals, calls, session, sessionBase, libs>>

\* An error of kind k raised by the current statement: the except clause of an
\* enclosing try absorbs it and the script goes on after the try statement;
\* otherwise it leaves the script.
Raise(k) ==
  IF InTry(Ins) /\ ExceptNameError(k)
  THEN /\ caught' = k
       /\ Goto
       /\ UNCHANGED err
  ELSE /\ status' = "raised"
       /\ err' = k
       /\ UNCHANGED <<pc, caught>>

\* try: m.addGraph(<var>)   with m defined and the call returning
AddGraphStep ==
  /\ At("addGraph")
  /\ mPresent
  /\ session' = addGraph(session, globals[Ins.var][1])
  /\ calls' = Logged("ok")
  /\ Advance
  /\ UNCHANGED <<perRun, g, locals, globals, sessionBase, libs, built, buildCount>>

\* try: m.addGraph(<var>)   with m undefined: looking m up raises NameError
\* before anything is called
SessionAbsent ==
  /\ At("addGraph")
  /\ ~mPresent
  /\ Raise("NameError")
  /\ UNCHANGED <<perRun, g, locals, globals, calls, host>>

\* The engine raises from the current statement instead of returning.
CallRaises ==
  /\ Running
  /\ Ins.op \in EngineOps
  /\ Ins.op = "addGraph" => mPresent
  /\ \E k \in ErrorKinds :
       /\ calls' = Logged(k)
       /\ Raise(k)
  /\ UNCHANGED <<perRun, g, locals, globals, host>>

\* The host evaluates a script again (the same one or another) in a fresh scope;
\* the session and the engine's loaded libraries live on.
NextRun ==
  /\ status # "running"
  /\ run < MaxRuns
  /\ run' = run + 1
  /\ script' \in Scripts
  /\ mPresent' \in BOOLEAN
  /\ pc' = 1
  /\ status' = "running"
  /\ g' = << >>
  /\ locals' = [v \in LocalVars |-> << >>]
  /\ globals' = [v \in GlobalVars |-> << >>]
  /\ calls' = << >>
  /\ err' = "none"
  /\ caught' = "none"
  /\ sessionBase' = Len(session)
  /\ UNCHANGED <<session, libs, built, buildCount>>

Step ==
  \/ Import
  \/ LoadLibraryStep
  \/ RenderGraphStep
  \/ CreatePassStep
  \/ AddPassStep
  \/ AddEdgeStep
  \/ MarkOutputStep
  \/ ReturnStep
  \/ AddGraphStep
  \/ SessionAbsent
  \/ CallRaises

Next == Step \/ NextRun

Spec == Init /\ [][Next]_vars

(***************************************************************************)
(* Vocabulary of the properties.                                           *)
(***************************************************************************)
Terminated == status # "running"

CallsOf(op) == {i \in DOMAIN calls : calls[i].ins.op = op}

AddGraphCalls == CallsOf("addGraph")

FailedBuildCalls ==
  {i \in DOMAIN calls : calls[i].ins.op \in BuildOps /\ calls[i].outcome # "ok"}

IsBuild(ins) == ins.op \in BuildOps

IsBuildCall(c) == IsBuild(c.ins)

IsMarkCall(c) == c.ins.op = "markOutput"

\* The build statements executed so far, in order.
BuildCalls == SelectSeq(calls, IsBuildCall)

\* Every statement of the script that precedes the try statement has run and returned.
FullyBuilt ==
  /\ FailedBuildCalls = {}
  /\ [i \in DOMAIN BuildCalls |-> BuildCalls[i].ins] = SelectSeq(Prog(script), IsBuild)
  /\ \E v \in GlobalVars : globals[v] # << >> /\ globals[v] = g

PassNames(gr) == {gr.passes[i].name : i \in DOMAIN gr.passes}

PortsOf(gr) == gr.outputs \cup {e[1] : e \in gr.edges} \cup {e[2] : e \in gr.edges}

Succ(gr, n) == {PassOf(e[2]) : e \in {x \in gr.edges : PassOf(x[1]) = n}}

RECURSIVE Reach(_, _, _)
Reach(gr, from, k) ==
  IF k = 0 THEN from
  ELSE Reach(gr, from \cup UNION {Succ(gr, n) : n \in from}, k - 1)

Acyclic(gr) ==
  \A n \in PassNames(gr) : n \notin Reach(gr, Succ(gr, n), Len(gr.passes))

\* The graphs in existence: the one under construction and the registered ones.
Graphs == {g[i] : i \in DOMAIN g} \cup {session[i] : i \in DOMAIN session}

(***************************************************************************)
(* C1: once render_graph_DefaultRenderGraph() of charvl.BSDFViewer.py has  *)
(* returned, the graph holds exactly the passes BSDFViewer {materialID: 0} *)
(* and AccumulatePass {enabled: true, precisionMode: Double}, the single   *)
(* edge BSDFViewer.output -> AccumulatePass.input and the single marked    *)
(* output AccumulatePass.output, and nothing else.                         *)
(***************************************************************************)
C1_BSDFViewerGraph ==
  (script = "BSDFViewer" /\ globals["DefaultRenderGraph"] # << >>) =>
    /\ g = globals["DefaultRenderGraph"]
    /\ g[1] =
         [name |-> "DefaultRenderGraph",
          passes |->
            << [name |-> "BSDFViewer", type |-> "BSDFViewer",
                options |-> << <<"materialID", 0>> >>],
               [name |-> "AccumulatePass", type |-> "AccumulatePass",
                options |-> << <<"enabled", TRUE>>, <<"precisionMode", "Double">> >>] >>,
          edges |-> { << <<"BSDFViewer", ".", "output">>,
                         <<"AccumulatePass", ".", "input">> >> },
          outputs |-> { <<"AccumulatePass", ".", "output">> }]

C1_Witness ==
  /\ script = "BSDFViewer"
  /\ status = "done"
  /\ globals["DefaultRenderGraph"] # << >>
  /\ Len(g[1].passes) = 2

(***************************************************************************)
(* C2: once render_graph_VBufferRT() has returned, the graph holds exactly *)
(* the pass VBufferRT, no edge, and the marked outputs vbuffer, depth,     *)
(* mvec, viewW of VBufferRT, marked in that order; and                     *)
(* loadRenderPassLibrary("GBuffer.dll") was called exactly once, before    *)
(* the RenderGraph was constructed and before createPass was called.       *)
(***************************************************************************)
C2_VBufferRTGraph ==
  (script = "VBufferRT" /\ globals["VBufferRT"] # << >>) =>
    /\ g = globals["VBufferRT"]
    /\ g[1] =
         [name |-> "VBufferRT",
          passes |-> << [name |-> "VBufferRT", type |-> "VBufferRT",
                         options |-> << >>] >>,
          edges |-> {},
          outputs |-> { <<"VBufferRT", ".", "vbuffer">>, <<"VBufferRT", ".", "depth">>,
                        <<"VBufferRT", ".", "mvec">>, <<"VBufferRT", ".", "viewW">> }]
    /\ LET marks == SelectSeq(calls, IsMarkCall)
       IN  [i \in DOMAIN marks |-> marks[i].ins.port] =
             << <<"VBufferRT", ".", "vbuffer">>, <<"VBufferRT", ".", "depth">>,
                <<"VBufferRT", ".", "mvec">>, <<"VBufferRT", ".", "viewW">> >>
    /\ Cardinality(CallsOf("loadRenderPassLibrary")) = 1
    /\ \A i \in CallsOf("loadRenderPassLibrary") :
         /\ calls[i].ins.file = "GBuffer.dll"
         /\ calls[i].outcome = "ok"
         /\ \A j \in CallsOf("RenderGraph") \cup CallsOf("createPass") : i < j
    /\ CallsOf("RenderGraph") # {}
    /\ CallsOf("createPass") # {}
    /\ "GBuffer.dll" \in libs

C2_Witness ==
  /\ script = "VBufferRT"
  /\ status = "done"
  /\ globals["VBufferRT"] # << >>
  /\ Cardinality(g[1].outputs) = 4

(***************************************************************************)
(* C3: once render_graph_DefaultRenderGraph() of charvl.wireless.py has    *)
(* returned, the graph holds exactly one pass, named wireframe, of type    *)
(* wireframe and without options, no edge, and the single marked output    *)
(* wireframe.output.                                                       *)
(***************************************************************************)
C3_WireframeGraph ==
  (script = "wireless" /\ globals["DefaultRenderGraph"] # << >>) =>
    /\ g = globals["DefaultRenderGraph"]
    /\ g[1] =
         [name |-> "DefaultRenderGraph",
          passes |-> << [name |-> "wireframe", type |-> "wireframe",
                         options |-> << >>] >>,
          edges |-> {},
          outputs |-> { <<"wireframe", ".", "output">> }]

C3_Witness ==
  /\ script = "wireless"
  /\ status = "done"
  /\ globals["DefaultRenderGraph"] # << >>
  /\ Len(g[1].passes) = 1

(***************************************************************************)
(* C4: with m undefined, an evaluation whose build statements all return   *)
(* always has a step to take while it runs, and ends completed, never with *)
(* an error: the graph is fully built and bound, looking m up raises       *)
(* NameError, the except clause absorbs it, addGraph is not called and the *)
(* session holds no graph it did not hold before.                          *)
(***************************************************************************)
C4_AbsentSessionTolerated ==
  (~mPresent /\ FailedBuildCalls = {}) =>
    /\ status = "running" => ENABLED Step
    /\ Terminated =>
         /\ status = "done"
         /\ err = "none"
         /\ caught = "NameError"
         /\ FullyBuilt
         /\ AddGraphCalls = {}
         /\ Len(session) = sessionBase

C4_Witness ==
  /\ ~mPresent
  /\ status = "done"
  /\ caught = "NameError"
  /\ FullyBuilt
  /\ run = 1
  /\ session = << >>

(***************************************************************************)
(* C5: with m defined, m.addGraph is called at most once in an evaluation, *)
(* and exactly once in every evaluation whose build statements all         *)
(* return; it is called only after every build statement of the script has *)
(* completed, with the graph the script built, and it is the last call of  *)
(* the evaluation: nothing touches the graph after it.                     *)
(***************************************************************************)
C5_RegisteredOnceAfterBuild ==
  mPresent =>
    /\ Cardinality(AddGraphCalls) <= 1
    /\ \A i \in AddGraphCalls :
         /\ i = Len(calls)
         /\ FullyBuilt
         /\ Len(BuildCalls) = i - 1
         /\ calls[i].outcome = "ok" =>
              /\ Len(session) = sessionBase + 1
              /\ session[Len(session)] = g[1]
              /\ session[Len(session)] = globals[calls[i].ins.var][1]
         /\ calls[i].outcome # "ok" => Len(session) = sessionBase
    /\ AddGraphCalls = {} => Len(session) = sessionBase
    /\ (Terminated /\ FailedBuildCalls = {}) => Cardinality(AddGraphCalls) = 1

C5_Witness ==
  /\ mPresent
  /\ status = "done"
  /\ Cardinality(AddGraphCalls) = 1
  /\ Len(session) = sessionBase + 1
  /\ session[Len(session)] = g[1]

C7_GuardAbsorbsOnlyAbsence ==
  /\ caught # "none" => ~mPresent
  /\ \A i \in AddGraphCalls :
       calls[i].outcome # "ok" => (status = "raised" /\ err = calls[i].outcome)

(***************************************************************************)
(* C8: every port an addEdge or markOutput call refers to names a pass     *)
(* that an earlier addPass call of the same evaluation added; so every     *)
(* port in a graph belongs to a pass of that graph.                        *)
(***************************************************************************)
AddedBefore(i, port) ==
  /\ WellFormedPort(port)
  /\ \E j \in CallsOf("addPass") :
       j < i /\ calls[j].outcome = "ok" /\ calls[j].ins.name = PassOf(port)

C8_PortsNameAddedPasses ==
  /\ \A i \in CallsOf("addEdge") :
       AddedBefore(i, calls[i].ins.src) /\ AddedBefore(i, calls[i].ins.dst)
  /\ \A i \in CallsOf("markOutput") : AddedBefore(i, calls[i].ins.port)
  /\ \A gr \in Graphs : \A p \in PortsOf(gr) :
       WellFormedPort(p) /\ PassOf(p) \in PassNames(gr)

C8_Witness ==
  /\ CallsOf("addEdge") # {}
  /\ CallsOf("markOutput") # {}
  /\ \E gr \in Graphs : gr.edges # {} /\ gr.outputs # {}

(***************************************************************************)
(* C9: in every graph, an edge leads from the port named output of one     *)
(* pass to the port named input of a different pass, no two passes share a *)
(* name, and the passes with the edges form an acyclic directed graph.     *)
(***************************************************************************)
C9_EdgesFormDag ==
  \A gr \in Graphs :
    /\ \A e \in gr.edges :
         /\ PassOf(e[1]) # PassOf(e[2])
         /\ PortOf(e[1]) = "output"
         /\ PortOf(e[2]) = "input"
    /\ \A i, j \in DOMAIN gr.passes :
         gr.passes[i].name = gr.passes[j].name => i = j
    /\ Acyclic(gr)

C9_Witness ==
  \E gr \in Graphs :
    /\ Len(gr.passes) = 2
    /\ Cardinality(gr.edges) = 1

(***************************************************************************)
(* C10: an error raised by a build statement, a NameError included, is not *)
(* absorbed: it leaves the script at that statement, the module-level      *)
(* graph variable stays unbound, and m.addGraph is not called, with m      *)
(* defined or not.                                                         *)
(***************************************************************************)
C10_BuildErrorsPropagate ==
  \A i \in FailedBuildCalls :
    /\ status = "raised"
    /\ err = calls[i].outcome
    /\ caught = "none"
    /\ i = Len(calls)
    /\ Prog(script)[pc] = calls[i].ins
    /\ \A v \in GlobalVars : globals[v] = << >>
    /\ AddGraphCalls = {}
    /\ Len(session) = sessionBase

C10_Witness ==
  /\ mPresent
  /\ status = "raised"
  /\ err = "NameError"
  /\ FailedBuildCalls # {}
  /\ g # << >>

====
